---- MODULE Spec2Model ----
(***************************************************************************)
(* Model of backend/test_scripts/queries.py: query_graph and               *)
(* query_binance.  Each function builds one literal request, hands it to   *)
(* the HTTP client once, prints the status code of the response, decodes   *)
(* the body as JSON and returns (a part of) the decoded value.             *)
(*                                                                         *)
(* Texts (the GraphQL document, the URLs, the response bodies) are         *)
(* sequences of lexemes [k, v]: TLC cannot look inside a string, so each   *)
(* text is cut at its lexical boundaries and the parsers below work on     *)
(* those sequences.  Numbers are kept as their decimal digits, because the *)
(* millisecond timestamps do not fit a 32-bit integer.                     *)
(***************************************************************************)
EXTENDS Integers, Sequences, FiniteSets, TLC

VARIABLES pc, fn, req, r, decoded, outcome, trace, stdout, wire, calls

vars == <<pc, fn, req, r, decoded, outcome, trace, stdout, wire, calls>>

\* Number of calls the caller makes in one run.
MaxCalls == 2

(***************************************************************************)
(* Lexemes                                                                 *)
(***************************************************************************)
\* v is the text of a lexeme, d its digits when it is a number.
Lx(k, v) == [k |-> k, v |-> v, d |-> <<>>]

P(s) == Lx("punct", s)

Name(s) == Lx("name", s)

Str(s) == Lx("string", s)

Num(s) == Lx("number", s)

Lit(s) == Lx("literal", s)

Ws == Lx("ws", " ")

Nl == Lx("ws", "\n")

Comma == Lx("comma", ",")

IsP(tk, s) == tk.k = "punct" /\ tk.v = s

(***************************************************************************)
(* JSON values as Python holds them after r.json(): str, int/float (by     *)
(* literal), None, list, dict.  A dict is a function on its keys, so two   *)
(* dicts with the same items are equal whatever the order of the text.     *)
(***************************************************************************)
JStr(x) == [t |-> "str", s |-> x, a |-> <<>>, o |-> <<>>]

JNum(x) == [t |-> "num", s |-> x, a |-> <<>>, o |-> <<>>]

JNull == [t |-> "null", s |-> "None", a |-> <<>>, o |-> <<>>]

JArr(x) == [t |-> "arr", s |-> "", a |-> x, o |-> <<>>]

JObj(f) == [t |-> "obj", s |-> "", a |-> <<>>, o |-> f]

NoValue == [t |-> "none", s |-> "", a |-> <<>>, o |-> <<>>]

ParseFail == [ok |-> FALSE, val |-> NoValue, next |-> 0]

ParseOk(v, n) == [ok |-> TRUE, val |-> v, next |-> n]

RECURSIVE ParseValue(_, _)
RECURSIVE ParseElems(_, _, _)
RECURSIVE ParseMembers(_, _, _, _)

\* json.loads, one value starting at lexeme i.
ParseValue(ts, i) ==
  IF i > Len(ts) THEN ParseFail
  ELSE LET tk == ts[i] IN
    CASE tk.k = "string" -> ParseOk(JStr(tk.v), i + 1)
      [] tk.k = "number" -> ParseOk(JNum(tk.v), i + 1)
      [] tk.k = "literal" /\ tk.v = "null" -> ParseOk(JNull, i + 1)
      [] IsP(tk, "[") -> ParseElems(ts, i + 1, <<>>)
      [] IsP(tk, "{") -> ParseMembers(ts, i + 1, <<>>, TRUE)
      [] OTHER -> ParseFail

\* The elements of an array; i is the place after "[" or after a ",".
ParseElems(ts, i, acc) ==
  IF i > Len(ts) THEN ParseFail
  ELSE IF Len(acc) = 0 /\ IsP(ts[i], "]") THEN ParseOk(JArr(<<>>), i + 1)
  ELSE LET e == ParseValue(ts, i) IN
    IF ~e.ok \/ e.next > Len(ts) THEN ParseFail
    ELSE IF ts[e.next].k = "comma"
      THEN ParseElems(ts, e.next + 1, Append(acc, e.val))
    ELSE IF IsP(ts[e.next], "]")
      THEN ParseOk(JArr(Append(acc, e.val)), e.next + 1)
    ELSE ParseFail

\* The members of an object; a repeated key keeps its last value.
ParseMembers(ts, i, acc, first) ==
  IF i > Len(ts) THEN ParseFail
  ELSE IF first /\ IsP(ts[i], "}") THEN ParseOk(JObj(acc), i + 1)
  ELSE IF ts[i].k # "string" \/ i + 1 > Len(ts) THEN ParseFail
  ELSE IF ~IsP(ts[i + 1], ":") THEN ParseFail
  ELSE LET e == ParseValue(ts, i + 2) IN
    IF ~e.ok \/ e.next > Len(ts) THEN ParseFail
    ELSE LET acc2 == (ts[i].v :> e.val) @@ acc IN
      IF ts[e.next].k = "comma"
        THEN ParseMembers(ts, e.next + 1, acc2, FALSE)
      ELSE IF IsP(ts[e.next], "}")
        THEN ParseOk(JObj(acc2), e.next + 1)
      ELSE ParseFail

\* r.json(): the whole body must be one JSON value.
JsonDecode(body) ==
  LET p == ParseValue(body, 1) IN
    IF p.ok /\ p.next = Len(body) + 1 THEN p ELSE ParseFail

(***************************************************************************)
(* The server's side: the text of a JSON value, keys written in the order  *)
(* ord.                                                                    *)
(***************************************************************************)
RECURSIVE Encode(_, _)
RECURSIVE EncodeElems(_, _, _)
RECURSIVE EncodeMembers(_, _, _, _)

Encode(v, ord) ==
  CASE v.t = "str" -> <<Str(v.s)>>
    [] v.t = "num" -> <<Num(v.s)>>
    [] v.t = "null" -> <<Lit("null")>>
    [] v.t = "arr" -> <<P("[")>> \o EncodeElems(v.a, 1, ord) \o <<P("]")>>
    [] v.t = "obj" -> <<P("{")>> \o EncodeMembers(v.o, ord, 1, TRUE) \o <<P("}")>>

EncodeElems(s, i, ord) ==
  IF i > Len(s) THEN <<>>
  ELSE (IF i > 1 THEN <<Comma>> ELSE <<>>) \o Encode(s[i], ord)
       \o EncodeElems(s, i + 1, ord)

EncodeMembers(f, ord, i, first) ==
  IF i > Len(ord) THEN <<>>
  ELSE IF ord[i] \notin DOMAIN f THEN EncodeMembers(f, ord, i + 1, first)
  ELSE (IF first THEN <<>> ELSE <<Comma>>)
       \o <<Str(ord[i]), P(":")>> \o Encode(f[ord[i]], ord)
       \o EncodeMembers(f, ord, i + 1, FALSE)

(***************************************************************************)
(* Python's subscription value[key] with a str key.                        *)
(***************************************************************************)
Return(v) == [kind |-> "return", value |-> v, err |-> "none"]

Raise(e) == [kind |-> "raise", value |-> NoValue, err |-> e]

NoOutcome == [kind |-> "none", value |-> NoValue, err |-> "none"]

\* Variant: a lookup with a default, as dict.get does.
Subscript_Get(v, key) ==
  IF v.t = "obj"
    THEN IF key \in DOMAIN v.o THEN Return(v.o[key]) ELSE Return(JNull)
    ELSE Raise("TypeError")

Subscript(v, key) ==
  IF v.t = "obj"
    THEN IF key \in DOMAIN v.o THEN Return(v.o[key]) ELSE Raise("KeyError")
    ELSE Raise("TypeError")

(***************************************************************************)
(* GraphQL and URL lexing.  Numbers are decimal digit sequences.           *)
(***************************************************************************)
Digits(d) == [k |-> "digits", v |-> "", d |-> d]

\* GraphQL's ignored tokens: white space, line terminators and commas.
GqlIgnored(tk) == tk.k \in {"ws", "comma"}

GqlTokens(doc) == SelectSeq(doc, LAMBDA tk : ~GqlIgnored(tk))

\* Index of the first token that is the name n, 0 when there is none.
RECURSIVE IndexOfName(_, _, _)
IndexOfName(ts, n, i) ==
  IF i > Len(ts) THEN 0
  ELSE IF ts[i].k = "name" /\ ts[i].v = n THEN i
  ELSE IndexOfName(ts, n, i + 1)

\* The tokens from i up to, not including, the first "]".
RECURSIVE UpToBracket(_, _)
UpToBracket(ts, i) ==
  IF i > Len(ts) \/ IsP(ts[i], "]") THEN <<>>
  ELSE <<ts[i]>> \o UpToBracket(ts, i + 1)

\* The elements of the list value of the argument n ( n : [ ... ] ).
ListArg(ts, n) ==
  LET i == IndexOfName(ts, n, 1) IN
    IF i = 0 \/ i + 2 > Len(ts) THEN <<>>
    ELSE IF ~(IsP(ts[i + 1], ":") /\ IsP(ts[i + 2], "[")) THEN <<>>
    ELSE UpToBracket(ts, i + 3)

\* The value token of the argument n ( n : value ).
ScalarArg(ts, n) ==
  LET i == IndexOfName(ts, n, 1) IN
    IF i = 0 \/ i + 2 > Len(ts) THEN Lx("none", "none")
    ELSE IF ~IsP(ts[i + 1], ":") THEN Lx("none", "none")
    ELSE ts[i + 2]

\* a < b for decimal digit sequences without leading zeros.
RECURSIVE DigitsLessFrom(_, _, _)
DigitsLessFrom(a, b, i) ==
  IF i > Len(a) THEN FALSE
  ELSE IF a[i] # b[i] THEN a[i] < b[i]
  ELSE DigitsLessFrom(a, b, i + 1)

DigitsLess(a, b) ==
  IF Len(a) # Len(b) THEN Len(a) < Len(b) ELSE DigitsLessFrom(a, b, 1)

\* The lexemes of a URL before the "?" (all of them when there is none).
RECURSIVE UrlBase(_, _)
UrlBase(url, i) ==
  IF i > Len(url) \/ IsP(url[i], "?") THEN <<>>
  ELSE <<url[i]>> \o UrlBase(url, i + 1)

\* The parameters name=value of a query string starting at lexeme i.
RECURSIVE ParamsFrom(_, _)
ParamsFrom(url, i) ==
  IF i + 2 > Len(url) THEN <<>>
  ELSE IF ~IsP(url[i + 1], "=") THEN <<>>
  ELSE <<[name |-> url[i].v, value |-> url[i + 2]]>>
       \o (IF i + 3 <= Len(url) /\ IsP(url[i + 3], "&")
             THEN ParamsFrom(url, i + 4) ELSE <<>>)

UrlParams(url) == ParamsFrom(url, Len(UrlBase(url, 1)) + 2)

(***************************************************************************)
(* The literals of queries.py                                              *)
(***************************************************************************)
PoolAddresses ==
  << "0x88e6a0c2ddd26feeb64f039a2c41296fcb3f5640",
     "0x8ad599c3a0ff1de082011efddc58f1908eb6e6d8",
     "0xe0554a476a092703abdb3ef35c80e0d76d32939f",
     "0x7BeA39867e4169DBe237d55C8242a8f2fcDcc387" >>

TimestampGt == <<1, 7, 3, 3, 0, 8, 0, 5, 0, 0>>

TimestampLt == <<1, 7, 3, 3, 0, 8, 0, 5, 6, 0>>

\* Variant: the two addresses that no comma separates run together.
GraphDocument_Joined ==
  << Nl, P("{"), Nl,
     Name("swaps"), P("("), Name("where"), P(":"), P("{"),
     Name("pool_in"), P(":"), P("["),
     Str(PoolAddresses[1]), Comma, Nl,
     Str(PoolAddresses[2]), Comma, Nl,
     Str("0xe0554a476a092703abdb3ef35c80e0d76d32939f0x7BeA39867e4169DBe237d55C8242a8f2fcDcc387"),
     P("]"), Nl,
     Name("timestamp_gt"), P(":"), Digits(TimestampGt), Ws,
     Name("timestamp_lt"), P(":"), Digits(TimestampLt), Ws, P("}"), Nl,
     Name("orderBy"), P(":"), Name("timestamp"), Ws,
     Name("orderDirection"), P(":"), Name("desc"), Ws, P(")"), Nl,
     P("{"), Nl, Name("amount0"), Nl, Name("amount1"), Nl, P("}"), Nl,
     P("}") >>

\* The document q, lexeme by lexeme.  The third address is followed by a
\* line break only, the others by a comma and a line break.
GraphDocument ==
  << Nl, P("{"), Nl,
     Name("swaps"), P("("), Name("where"), P(":"), P("{"),
     Name("pool_in"), P(":"), P("["),
     Str(PoolAddresses[1]), Comma, Nl,
     Str(PoolAddresses[2]), Comma, Nl,
     Str(PoolAddresses[3]), Nl,
     Str(PoolAddresses[4]), P("]"), Nl,
     Name("timestamp_gt"), P(":"), Digits(TimestampGt), Ws,
     Name("timestamp_lt"), P(":"), Digits(TimestampLt), Ws, P("}"), Nl,
     Name("orderBy"), P(":"), Name("timestamp"), Ws,
     Name("orderDirection"), P(":"), Name("desc"), Ws, P(")"), Nl,
     P("{"), Nl, Name("amount0"), Nl, Name("amount1"), Nl, P("}"), Nl,
     P("}") >>

GraphUrl ==
  << Name("https://gateway.thegraph.com"),
     Name("/api/da162f6f59fe4400bb44cfb2f36d1336/subgraphs/id/5zvR82QoaXYFyDEKLZ9t6v9adgnptxYpKpSbxtgVENFV") >>

GraphHeader == [ContentType |-> "application/json"]

StartTime == <<1, 7, 3, 3, 2, 4, 0, 4, 0, 0, 0, 0, 0>>

EndTime == <<1, 7, 3, 3, 2, 4, 0, 4, 6, 0, 0, 0, 0>>

\* Variant: one more parameter in the query string.
BinanceUrl_Limit ==
  << Name("https://api.binance.com"), Name("/api/v3/aggTrades"), P("?"),
     Name("symbol"), P("="), Name("ETHUSDC"), P("&"),
     Name("startTime"), P("="), Digits(StartTime), P("&"),
     Name("endTime"), P("="), Digits(EndTime), P("&"),
     Name("limit"), P("="), Digits(<<1, 0, 0, 0>>) >>

BinanceUrl ==
  << Name("https://api.binance.com"), Name("/api/v3/aggTrades"), P("?"),
     Name("symbol"), P("="), Name("ETHUSDC"), P("&"),
     Name("startTime"), P("="), Digits(StartTime), P("&"),
     Name("endTime"), P("="), Digits(EndTime) >>

NoHeader == [ContentType |-> "none"]

NoDocument == <<>>

\* requests.post( url, headers=header, json={"query":q})
GraphRequest ==
  [method |-> "POST", url |-> GraphUrl, headers |-> GraphHeader,
   json |-> [query |-> GraphDocument]]

\* requests.get( url )
BinanceRequest ==
  [method |-> "GET", url |-> BinanceUrl, headers |-> NoHeader,
   json |-> [none |-> NoDocument]]

NoRequest ==
  [method |-> "none", url |-> <<>>, headers |-> NoHeader,
   json |-> [none |-> NoDocument]]

(***************************************************************************)
(* What the two servers may answer                                         *)
(***************************************************************************)
SwapsData ==
  JObj([swaps |-> JArr(<< JObj([amount0 |-> JStr("1.0"),
                                amount1 |-> JStr("-2.0")]) >>)])

GraphErrors == JArr(<< JObj([message |-> JStr("bad query")]) >>)

JsonValues ==
  { JObj([data |-> SwapsData]),
    JObj([errors |-> GraphErrors]),
    JObj([data |-> JNull, errors |-> GraphErrors]),
    JArr(<< JObj([p |-> JStr("3000.5"), q |-> JStr("0.1"),
                  T |-> JNum("1733240410000")]) >>),
    JArr(<<>>),
    JStr("data") }

KeyOrders ==
  { <<"data", "errors", "swaps", "amount0", "amount1", "message",
      "p", "q", "T">>,
    <<"T", "q", "p", "message", "amount1", "amount0", "swaps",
      "errors", "data">> }

FirstOrder == CHOOSE o \in KeyOrders : o[1] = "data"

ValidBodies == { Encode(v, o) : v \in JsonValues, o \in KeyOrders }

InvalidBodies ==
  { <<>>,
    << Lx("garbage", "<html>") >>,
    << P("{"), Str("data"), P(":") >>,
    << P("{"), Str("data"), P(":"), Lit("null"), P("}"), P("}") >> }

Bodies == ValidBodies \cup InvalidBodies

StatusCodes == {200, 500}

ConnectionErrors == {"ConnectionError", "Timeout"}

NoResponse == [status_code |-> 0, body |-> <<>>, exc |-> "none"]

(***************************************************************************)
(* The calls                                                               *)
(***************************************************************************)
Init ==
  /\ pc = "idle"
  /\ fn = "none"
  /\ req = NoRequest
  /\ r = NoResponse
  /\ decoded = NoValue
  /\ outcome = NoOutcome
  /\ trace = <<>>
  /\ stdout = <<>>
  /\ wire = <<>>
  /\ calls = <<>>

\* The number of the call in progress (of the next call when none is).
CallNo == Len(calls) + 1

\* The caller enters f; the literals q, url, header are bound.
Enter(f, request) ==
  /\ pc \in {"idle", "done"}
  /\ Len(calls) < MaxCalls
  /\ pc' = "built"
  /\ fn' = f
  /\ req' = request
  /\ r' = NoResponse
  /\ decoded' = NoValue
  /\ outcome' = NoOutcome
  /\ trace' = <<>>
  /\ UNCHANGED <<stdout, wire, calls>>

\* The call ends with outcome o: a value for the caller or an exception.
Leave(o, resp, tr) ==
  /\ pc' = "done"
  /\ outcome' = o
  /\ calls' = Append(calls, [fn |-> fn, req |-> req, r |-> resp,
                             outcome |-> o, trace |-> tr])

query_graph == Enter("query_graph", GraphRequest)

\* Variant: a call after the first asks for the next page.
query_binance_Cursor ==
  Enter("query_binance",
        IF Len(calls) = 0 THEN BinanceRequest
        ELSE [BinanceRequest EXCEPT
                !.url = @ \o <<P("&"), Name("fromId"), P("="), Name("next")>>])

query_binance == Enter("query_binance", BinanceRequest)

\* r = requests.post(...) / r = requests.get(...): the request is issued.
SendRequest ==
  /\ pc = "built"
  /\ wire' = Append(wire, [call |-> CallNo, fn |-> fn, req |-> req])
  /\ trace' = Append(trace, "request")
  /\ pc' = "inflight"
  /\ UNCHANGED <<fn, req, r, decoded, outcome, stdout, calls>>

\* The HTTP client returns a response, whatever its status.
ReceiveResponse ==
  /\ pc = "inflight"
  /\ \E st \in StatusCodes, b \in Bodies :
       r' = [status_code |-> st, body |-> b, exc |-> "none"]
  /\ trace' = Append(trace, "response")
  /\ pc' = "received"
  /\ UNCHANGED <<fn, req, decoded, outcome, stdout, wire, calls>>

\* Variant: the failure is caught and None is returned.
RequestFails_Swallowed ==
  /\ pc = "inflight"
  /\ \E e \in ConnectionErrors :
       /\ r' = [NoResponse EXCEPT !.exc = e]
       /\ trace' = Append(trace, "return")
       /\ Leave(Return(JNull), r', trace')
  /\ UNCHANGED <<fn, req, decoded, stdout, wire>>

\* The HTTP client raises; neither function has a try, so the caller gets it.
RequestFails ==
  /\ pc = "inflight"
  /\ \E e \in ConnectionErrors :
       /\ r' = [NoResponse EXCEPT !.exc = e]
       /\ trace' = Append(trace, "raise")
       /\ Leave(Raise(e), r', trace')
  /\ UNCHANGED <<fn, req, decoded, stdout, wire>>

\* Variant: a server error sends the request again.
PrintStatus_Retry ==
  /\ pc = "received"
  /\ stdout' = Append(stdout, [call |-> CallNo, text |-> r.status_code])
  /\ trace' = IF r.status_code = 500 THEN <<>> ELSE Append(trace, "print")
  /\ pc' = IF r.status_code = 500 THEN "built" ELSE "printed"
  /\ UNCHANGED <<fn, req, r, decoded, outcome, wire, calls>>

\* Variant: only a 200 is printed.
PrintStatus_OkOnly ==
  /\ pc = "received"
  /\ stdout' = IF r.status_code = 200
                 THEN Append(stdout, [call |-> CallNo, text |-> r.status_code])
                 ELSE stdout
  /\ trace' = IF r.status_code = 200 THEN Append(trace, "print") ELSE trace
  /\ pc' = "printed"
  /\ UNCHANGED <<fn, req, r, decoded, outcome, wire, calls>>

\* print( r.status_code )
PrintStatus ==
  /\ pc = "received"
  /\ stdout' = Append(stdout, [call |-> CallNo, text |-> r.status_code])
  /\ trace' = Append(trace, "print")
  /\ pc' = "printed"
  /\ UNCHANGED <<fn, req, r, decoded, outcome, wire, calls>>

\* Variant: a status other than 200 raises before the body is read.
DecodeBody_RaiseForStatus ==
  /\ pc = "printed"
  /\ LET p == JsonDecode(r.body) IN
       IF r.status_code # 200
         THEN /\ decoded' = NoValue
              /\ trace' = Append(trace, "raise")
              /\ Leave(Raise("HTTPError"), r, trace')
       ELSE IF p.ok
         THEN /\ decoded' = p.val
              /\ trace' = Append(trace, "decode")
              /\ pc' = "decoded"
              /\ UNCHANGED <<outcome, calls>>
         ELSE /\ decoded' = NoValue
              /\ trace' = trace \o <<"decode", "raise">>
              /\ Leave(Raise("JSONDecodeError"), r, trace')
  /\ UNCHANGED <<fn, req, r, stdout, wire>>

\* r.json()
DecodeBody ==
  /\ pc = "printed"
  /\ LET p == JsonDecode(r.body) IN
       IF p.ok
         THEN /\ decoded' = p.val
              /\ trace' = Append(trace, "decode")
              /\ pc' = "decoded"
              /\ UNCHANGED <<outcome, calls>>
         ELSE /\ decoded' = NoValue
              /\ trace' = trace \o <<"decode", "raise">>
              /\ Leave(Raise("JSONDecodeError"), r, trace')
  /\ UNCHANGED <<fn, req, r, stdout, wire>>

\* Variant: query_graph returns the whole decoded body.
Result_Whole(f, v) == Return(v)

\* Variant: query_binance selects `data` as query_graph does.
Result_DataOnly(f, v) == Subscript(v, "data")

\* What each function makes of the decoded body.
Result(f, v) == IF f = "query_graph" THEN Subscript(v, "data") ELSE Return(v)

\* return r.json()["data"] / return r.json()
ReturnResult ==
  /\ pc = "decoded"
  /\ LET o == Result(fn, decoded) IN
       /\ trace' = Append(trace, o.kind)
       /\ Leave(o, r, trace')
  /\ UNCHANGED <<fn, req, r, decoded, stdout, wire>>

Next ==
  \/ query_graph
  \/ query_binance
  \/ SendRequest
  \/ ReceiveResponse
  \/ RequestFails
  \/ PrintStatus
  \/ DecodeBody
  \/ ReturnResult

Spec == Init /\ [][Next]_vars

TypeOK ==
  /\ pc \in {"idle", "built", "inflight", "received", "printed", "decoded", "done"}
  /\ fn \in {"none", "query_graph", "query_binance"}
  /\ Len(calls) <= MaxCalls

(***************************************************************************)
(* Properties                                                              *)
(***************************************************************************)
\* Every JSON text the servers send, with the value it is the text of.
Sent == { [value |-> v, body |-> Encode(v, o)] : v \in JsonValues, o \in KeyOrders }

Done == 1..Len(calls)

Responded(c) == c.r.exc = "none"

\* Requests issued, and status lines printed, by call number n.
ReqCount(n) == Cardinality({k \in DOMAIN wire : wire[k].call = n})

PrintCount(n) == Cardinality({k \in DOMAIN stdout : stdout[k].call = n})

HasData(v) == v.t = "obj" /\ "data" \in DOMAIN v.o

\* C1: when the body of the response is the text of a JSON object with a
\* `data` key, query_graph returns the value under `data`, unchanged,
\* whatever other keys the object has.
C1_GraphReturnsData ==
  \A i \in Done : \A e \in Sent :
    (calls[i].fn = "query_graph" /\ Responded(calls[i])
       /\ calls[i].r.body = e.body /\ HasData(e.value))
    => calls[i].outcome = Return(e.value.o["data"])

C1_Witness ==
  \E i \in Done :
    /\ calls[i].fn = "query_graph"
    /\ calls[i].r.body \in { Encode(JObj([data |-> SwapsData]), o) : o \in KeyOrders }
    /\ calls[i].outcome = Return(SwapsData)

\* C2: when the body is not valid JSON, or is the text of a JSON object
\* without a `data` key, query_graph ends by raising to its caller and
\* returns no value.
C2_GraphFailsWithoutData ==
  \A i \in Done :
    (calls[i].fn = "query_graph" /\ Responded(calls[i])
       /\ \/ calls[i].r.body \in InvalidBodies
          \/ \E e \in Sent : /\ calls[i].r.body = e.body
                              /\ e.value.t = "obj"
                              /\ "data" \notin DOMAIN e.value.o)
    => /\ calls[i].outcome.kind = "raise"
       /\ calls[i].outcome.value = NoValue
       /\ calls[i].outcome.err \in {"JSONDecodeError", "KeyError"}

C2_Witness ==
  \E i, j \in Done :
    /\ calls[i].fn = "query_graph"
    /\ calls[i].r.body = Encode(JObj([errors |-> GraphErrors]), FirstOrder)
    /\ calls[i].outcome = Raise("KeyError")
    /\ calls[j].fn = "query_graph"
    /\ calls[j].r.body \in InvalidBodies
    /\ Responded(calls[j])
    /\ calls[j].outcome = Raise("JSONDecodeError")

\* C3: when the body is valid JSON of any shape, query_binance returns the
\* whole decoded body, unchanged.
C3_BinanceReturnsBody ==
  \A i \in Done : \A e \in Sent :
    (calls[i].fn = "query_binance" /\ Responded(calls[i])
       /\ calls[i].r.body = e.body)
    => calls[i].outcome = Return(e.value)

C3_Witness ==
  \E i, j \in Done :
    /\ calls[i].fn = "query_binance"
    /\ calls[i].outcome.kind = "return"
    /\ calls[i].outcome.value.t = "arr"
    /\ Len(calls[i].outcome.value.a) = 1
    /\ DOMAIN calls[i].outcome.value.a[1].o = {"p", "q", "T"}
    /\ calls[j].fn = "query_binance"
    /\ calls[j].outcome.kind = "return"
    /\ HasData(calls[j].outcome.value)

\* C4: every call issues exactly one request, on every path; a call in
\* progress has issued at most one.
C4_OneRequestPerCall ==
  /\ \A i \in Done : ReqCount(i) = 1
  /\ ReqCount(CallNo) <= 1
  /\ Len(wire) <= CallNo

C4_Witness ==
  /\ Len(calls) = 2
  /\ calls[1].outcome.err \in ConnectionErrors
  /\ calls[2].r.status_code = 500
  /\ calls[2].outcome.err \in {"KeyError", "JSONDecodeError"}
  /\ ReqCount(1) = 1
  /\ ReqCount(2) = 1

\* C5: the request of query_graph is a POST whose JSON body has a `query`
\* key; the document under it, tokenized as GraphQL, has a pool_in list of
\* exactly the four addresses and the two timestamp bounds.
C5_GraphRequestLiterals ==
  \A k \in DOMAIN wire :
    wire[k].fn = "query_graph" =>
      /\ wire[k].req.method = "POST"
      /\ "query" \in DOMAIN wire[k].req.json
      /\ LET ts == GqlTokens(wire[k].req.json.query) IN
           /\ ListArg(ts, "pool_in") =
                << Str("0x88e6a0c2ddd26feeb64f039a2c41296fcb3f5640"),
                   Str("0x8ad599c3a0ff1de082011efddc58f1908eb6e6d8"),
                   Str("0xe0554a476a092703abdb3ef35c80e0d76d32939f"),
                   Str("0x7BeA39867e4169DBe237d55C8242a8f2fcDcc387") >>
           /\ ScalarArg(ts, "timestamp_gt") = Digits(<<1, 7, 3, 3, 0, 8, 0, 5, 0, 0>>)
           /\ ScalarArg(ts, "timestamp_lt") = Digits(<<1, 7, 3, 3, 0, 8, 0, 5, 6, 0>>)

C5_Witness ==
  \E k \in DOMAIN wire :
    /\ wire[k].fn = "query_graph"
    /\ Len(ListArg(GqlTokens(wire[k].req.json.query), "pool_in")) = 4

\* C6: the request of query_binance is a GET to /api/v3/aggTrades whose
\* query string holds symbol=ETHUSDC, startTime=1733240400000 and
\* endTime=1733240460000, startTime < endTime, and no other parameter.
C6_BinanceRequestLiterals ==
  \A k \in DOMAIN wire :
    wire[k].fn = "query_binance" =>
      /\ wire[k].req.method = "GET"
      /\ UrlBase(wire[k].req.url, 1) =
           << Name("https://api.binance.com"), Name("/api/v3/aggTrades") >>
      /\ LET ps == UrlParams(wire[k].req.url) IN
           /\ Len(ps) = 3
           /\ { ps[n] : n \in DOMAIN ps } =
                { [name |-> "symbol", value |-> Name("ETHUSDC")],
                  [name |-> "startTime",
                   value |-> Digits(<<1, 7, 3, 3, 2, 4, 0, 4, 0, 0, 0, 0, 0>>)],
                  [name |-> "endTime",
                   value |-> Digits(<<1, 7, 3, 3, 2, 4, 0, 4, 6, 0, 0, 0, 0>>)] }
           /\ \A m, n \in DOMAIN ps :
                (ps[m].name = "startTime" /\ ps[n].name = "endTime")
                => DigitsLess(ps[m].value.d, ps[n].value.d)

C6_Witness ==
  \E k \in DOMAIN wire :
    /\ wire[k].fn = "query_binance"
    /\ Len(UrlParams(wire[k].req.url)) = 3

\* C7: two responses with the same body and any status codes give the same
\* outcome and the same course of the call, in both functions; only the
\* printed status differs.
C7_StatusIrrelevant ==
  \A i, j \in Done :
    (calls[i].fn = calls[j].fn /\ Responded(calls[i]) /\ Responded(calls[j])
       /\ calls[i].r.body = calls[j].r.body)
    => /\ calls[i].outcome = calls[j].outcome
       /\ calls[i].trace = calls[j].trace

C7_Witness ==
  \E i, j \in Done :
    /\ calls[i].fn = calls[j].fn
    /\ calls[i].r.body = calls[j].r.body
    /\ calls[i].r.status_code = 200
    /\ calls[j].r.status_code = 500
    /\ calls[i].outcome.kind = "return"
    /\ calls[j].outcome = calls[i].outcome
    /\ \E m, n \in DOMAIN stdout :
         /\ stdout[m].call = i /\ stdout[m].text = 200
         /\ stdout[n].call = j /\ stdout[n].text = 500

IsPrefix(s, t) == Len(s) <= Len(t) /\ SubSeq(t, 1, Len(s)) = s

\* C8: the events of a call come in the order request, response, print,
\* decode, return or raise; the status of every received response is
\* printed exactly once, before the body is decoded, also when the call
\* then fails on the body.
C8_EventOrder ==
  /\ \A i \in Done :
       Responded(calls[i]) =>
         /\ calls[i].trace \in
              { <<"request", "response", "print", "decode", "return">>,
                <<"request", "response", "print", "decode", "raise">> }
         /\ PrintCount(i) = 1
         /\ \A k \in DOMAIN stdout :
              stdout[k].call = i => stdout[k].text = calls[i].r.status_code
  /\ pc # "done" => IsPrefix(trace, <<"request", "response", "print", "decode">>)
  /\ pc = "decoded" => PrintCount(CallNo) = 1

C8_Witness ==
  \E i, j \in Done :
    /\ calls[i].fn = "query_graph"
    /\ calls[i].outcome = Raise("JSONDecodeError")
    /\ PrintCount(i) = 1
    /\ calls[j].fn = "query_graph"
    /\ calls[j].outcome = Raise("KeyError")
    /\ PrintCount(j) = 1

\* C9: when the request fails at the connection level, the call raises the
\* client's error to the caller: nothing is printed, nothing is returned
\* and no second request is issued.
C9_ConnectionFailurePropagates ==
  \A i \in Done :
    ~Responded(calls[i]) =>
      /\ calls[i].outcome = Raise(calls[i].r.exc)
      /\ calls[i].r.exc \in ConnectionErrors
      /\ PrintCount(i) = 0
      /\ ReqCount(i) = 1
      /\ calls[i].trace = <<"request", "raise">>

C9_Witness ==
  \E i, j \in Done :
    /\ calls[i].fn = "query_graph"
    /\ calls[i].outcome = Raise("Timeout")
    /\ calls[j].fn = "query_binance"
    /\ calls[j].outcome = Raise("ConnectionError")
    /\ stdout = <<>>

====
